---- MODULE Spec2Model ----
(***************************************************************************)
(* Model of src/script.js: the snow/ice particle field drawn on the canvas *)
(* and the timed transition sequence between the Christmas logo and the    *)
(* icy day screen; and of src/main.js: the looping GSAP timeline that      *)
(* assembles, spins and breaks apart the logo.  The two scripts share no   *)
(* state.                                                                  *)
(*                                                                         *)
(* Lengths, speeds, radii and alphas are kept in thousandths (1 px = 1000);*)
(* width and height are whole pixels.  Math.random() is a generator with a *)
(* hidden seed: `rng` is its position in RandTable, whose entries are the  *)
(* returned values in thousandths, and Init chooses the seed.              *)
(* Time `now` is in ms since the image gate first called startSequence;    *)
(* a timeout fires exactly when it is due.                                 *)
(***************************************************************************)
EXTENDS Integers, Sequences, FiniteSets, TLC

VARIABLES
  width, height,  \* the canvas size the script last read from the window
  flakes,         \* the particle pool, a sequence of flake records
  rng,            \* position of the Math.random() generator
  ticks, resizes, \* how many frames / resize events have run (bounded)
  complete,       \* img.complete of the two images
  registered,     \* the image gate at the end of the script has run
  readyAtReg,     \* the images that were complete when it ran
  listeners,      \* the images carrying the gate's "load" listener
  loaded,         \* the gate's load counter
  gateStarts,     \* calls of startSequence made by the image gate
  ui,             \* class lists and inline opacities of overlay, logo, day screen
  timers,         \* pending timeouts: [id, cb, due]
  timerSeq,       \* timeouts created so far
  now,            \* ms since the gate's startSequence call
  seqState,       \* the sequencer state the last callback entered
  lastDwell,      \* delay of the timeout whose callback ran last
  cycle,          \* calls of startSequence so far
  bursts,         \* calls of burstIceShards so far
  tlTime,         \* main.js: the timeline's playhead within the loop, in ticks
  loops,          \* main.js: completed iterations of the timeline
  pose,           \* main.js: vector components, material opacities, camState
  tw,             \* main.js: per tween, its start values and its own playhead
  refPose, refTw  \* main.js: pose and tweens of a first iteration played
                  \* tick by tick up to tlTime

vars == <<ticks, resizes, bursts, width, height, rng,
          complete, registered, readyAtReg, listeners, loaded, gateStarts,
          ui, timers, timerSeq, now, seqState, lastDwell, cycle, flakes,
          tlTime, loops, pose, tw, refPose, refTw>>

fieldVars == <<width, height, flakes, rng, ticks, resizes>>
gateVars  == <<complete, registered, readyAtReg, listeners, loaded, gateStarts>>
seqVars   == <<ui, timers, timerSeq, now, seqState, lastDwell, cycle, bursts>>
scriptVars == <<fieldVars, gateVars, seqVars>>
tlVars    == <<tlTime, loops, pose, tw, refPose, refTw>>

(* ---------------------------- bounds ----------------------------------- *)
MaxTicks   == 2
MaxBursts  == 1
MaxResizes == 1
\* frames that follow the first MaxTicks when frames are run to the end
MaxFall    == 9
\* main.js: repeats of the timeline that are followed
MaxLoops   == 1

\* values Math.random() returns, in thousandths, in the order the generator
\* yields them (0 is the least value it can return, 980 stands for "just
\* below 1")
RandTable == <<0, 980, 500, 260, 740, 20, 900>>
RandLen   == Len(RandTable)
Seeds     == {0, 3}

\* viewport sizes <<innerWidth, innerHeight>> in px
Sizes == {<<20, 8>>, <<4, 4>>}

Images == {"christmasLogo", "dayScreen"}

(* ------------------------ program constants ---------------------------- *)
maxFlakes        == 140
BurstSize        == 60
SHOW_CHRISTMAS   == 4500
EXPLODE_DURATION == 900
\* faulty delay: the icy screen is given the explode delay
SHOW_ICY_AsExplode == EXPLODE_DURATION
SHOW_ICY         == 5000
LOOP_PAUSE       == 1000

(* --------------------------- particles --------------------------------- *)
\* the value of the n-th Math.random() call
Rand(n) == RandTable[(n % RandLen) + 1]

\* createFlake(extraBurst) with the generator at position n, for viewport w x h
CreateFlake(extraBurst, n, w, h) ==
  IF extraBurst
    THEN [x      |-> Rand(n) * w,
          y      |-> h * 400,
          radius |-> 1000 + Rand(n + 1) * 2,
          speedY |-> 500 + (Rand(n + 2) * 3) \div 2 + 1200,
          speedX |-> ((Rand(n + 3) - 500) * 2) \div 5,
          alpha  |-> 400 + (Rand(n + 4) * 3) \div 5,
          extraBurst |-> TRUE]
    ELSE [x      |-> Rand(n) * w,
          y      |-> Rand(n + 1) * h,
          radius |-> 600 + (Rand(n + 2) * 9) \div 5,
          speedY |-> 500 + (Rand(n + 3) * 3) \div 2,
          speedX |-> ((Rand(n + 4) - 500) * 2) \div 5,
          alpha  |-> 400 + (Rand(n + 5) * 3) \div 5,
          extraBurst |-> FALSE]

\* number of Math.random() calls one createFlake makes
FlakeDraws(extraBurst) == IF extraBurst THEN 5 ELSE 6

\* the initial fill: maxFlakes ambient flakes
InitialSnow(n, w, h) ==
  [i \in 1..maxFlakes |-> CreateFlake(FALSE, n + FlakeDraws(FALSE) * (i - 1), w, h)]

\* faulty shard: x and y of createFlake(true) are not overridden
IceShardNotCentred(n, w, h) ==
  [CreateFlake(TRUE, n, w, h) EXCEPT
     !.speedX = (Rand(n + 7) - 500) * 3,
     !.speedY = 1000 + Rand(n + 8) * 3,
     !.radius = 1000 + Rand(n + 9) * 2]

\* one shard of burstIceShards: createFlake(true) overridden by Object.assign
IceShard(n, w, h) ==
  [CreateFlake(TRUE, n, w, h) EXCEPT
     !.x      = w * 500 + ((Rand(n + 5) - 500) * (w * 150)) \div 1000,
     !.y      = h * 500 + ((Rand(n + 6) - 500) * (h * 150)) \div 1000,
     !.speedX = (Rand(n + 7) - 500) * 3,
     !.speedY = 1000 + Rand(n + 8) * 3,
     !.radius = 1000 + Rand(n + 9) * 2]

ShardDraws == FlakeDraws(TRUE) + 5

\* faulty burst: the shards overwrite the tail of the pool
burstIceShardsInPlace(fl, n, w, h) ==
  SubSeq(fl, 1, Len(fl) - BurstSize)
    \o [i \in 1..BurstSize |-> IceShard(n + ShardDraws * (i - 1), w, h)]

\* burstIceShards(): the pool after the push loop
burstIceShards(fl, n, w, h) ==
  fl \o [i \in 1..BurstSize |-> IceShard(n + ShardDraws * (i - 1), w, h)]

\* the "Move" lines of drawSnow for one flake
Move(f) == [f EXCEPT !.y = f.y + f.speedY, !.x = f.x + f.speedX]

\* faulty wrap: only the right edge wraps
WrapXRightOnly(f, w) ==
  IF f.x > (w + 5) * 1000 THEN [f EXCEPT !.x = -5000] ELSE f

\* faulty wrap: a wrapped flake loses its horizontal speed
WrapXStopsDrift(f, w) ==
  LET a == IF f.x > (w + 5) * 1000 THEN [f EXCEPT !.x = -5000, !.speedX = 0] ELSE f
  IN  IF a.x < -5000 THEN [a EXCEPT !.x = (w + 5) * 1000, !.speedX = 0] ELSE a

\* the left/right wrap of drawSnow, applied to the moved flake
WrapX(f, w) ==
  LET a == IF f.x > (w + 5) * 1000 THEN [f EXCEPT !.x = -5000] ELSE f
  IN  IF a.x < -5000 THEN [a EXCEPT !.x = (w + 5) * 1000] ELSE a

\* does the moved flake leave through the bottom?
ExitsBottom(f, h) == f.y > h * 1000

\* faulty recycle: the new flake keeps the y createFlake gave it
RecycleAnywhere(n, w, h) == CreateFlake(FALSE, n, w, h)

\* the flake drawSnow leaves in a slot whose flake left through the bottom,
\* with the generator at position n
Recycle(n, w, h) == [CreateFlake(FALSE, n, w, h) EXCEPT !.y = -5000]

\* the slots whose flake leaves through the bottom in this frame: each of
\* them makes one createFlake(false) call
Exits(fl, h) == {i \in 1..Len(fl) : ExitsBottom(Move(fl[i]), h)}

\* drawSnow(): the pool after one animation frame, slot by slot, with the
\* generator at position n when the frame starts
drawSnow(fl, n, w, h) ==
  LET out == Exits(fl, h)
      before(i) == Cardinality({j \in out : j < i})
  IN  [i \in 1..Len(fl) |->
         IF i \in out
           THEN Recycle(n + FlakeDraws(FALSE) * before(i), w, h)
           ELSE WrapX(Move(fl[i]), w)]

\* the generator position after that frame
RngAfterDraw(fl, n, h) ==
  (n + FlakeDraws(FALSE) * Cardinality(Exits(fl, h))) % RandLen

(* --------------------------- sequencer --------------------------------- *)
\* faulty resetStates: the day screen is left opaque
resetStatesDayShown(u) ==
  [overlay     |-> u.overlay \ {"exploding", "icy"},
   logo        |-> u.logo \ {"shake", "breathe"},
   day         |-> u.day \ {"breathe"},
   logoOpacity |-> "1",
   dayOpacity  |-> "1"]

\* faulty resetStates: the overlay's icy flag is not removed
resetStatesKeepsIcy(u) ==
  [overlay     |-> u.overlay \ {"exploding"},
   logo        |-> u.logo \ {"shake", "breathe"},
   day         |-> u.day \ {"breathe"},
   logoOpacity |-> "1",
   dayOpacity  |-> "0"]

\* resetStates(): class lists and inline opacities afterwards
resetStates(u) ==
  [overlay     |-> u.overlay \ {"exploding", "icy"},
   logo        |-> u.logo \ {"shake", "breathe"},
   day         |-> u.day \ {"breathe"},
   logoOpacity |-> "1",
   dayOpacity  |-> "0"]

\* faulty setTimeout: the delay is dropped, the callback is due at once
SetTimeoutNoDelay(pending, cb, delay, at) ==
  /\ timers' = pending \cup {[id |-> timerSeq + 1, cb |-> cb, due |-> at]}
  /\ timerSeq' = timerSeq + 1

\* setTimeout(cb, delay) called at time `at`, with `pending` still waiting
SetTimeout(pending, cb, delay, at) ==
  /\ timers' = pending \cup {[id |-> timerSeq + 1, cb |-> cb, due |-> at + delay]}
  /\ timerSeq' = timerSeq + 1

\* faulty startSequence: timeouts still pending are re-armed next to the new one
startSequenceRearms(pending, at) ==
  /\ ui' = [resetStates(ui) EXCEPT !.logo = @ \cup {"breathe"}]
  /\ timers' = timers \cup {[id |-> timerSeq + 1, cb |-> "explode", due |-> at + SHOW_CHRISTMAS]}
  /\ timerSeq' = timerSeq + 1
  /\ seqState' = "ShowingA"
  /\ cycle' = cycle + 1
  /\ now' = at

\* startSequence() called at time `at`
startSequence(pending, at) ==
  /\ ui' = [resetStates(ui) EXCEPT !.logo = @ \cup {"breathe"}]
  /\ SetTimeout(pending, "explode", SHOW_CHRISTMAS, at)
  /\ seqState' = "ShowingA"
  /\ cycle' = cycle + 1
  /\ now' = at

\* faulty gates: start on every load event / on the first load event
LoadGateEveryLoad(n) == n >= 1
LoadGateFirstLoad(n) == n = 1

\* the gate's test inside the load listener
LoadGate(n) == n = 2

\* the end of the script: start now, or wait for both load events
Register ==
  /\ ~registered
  /\ registered' = TRUE
  /\ readyAtReg' = {i \in Images : complete[i]}
  /\ IF complete["christmasLogo"] /\ complete["dayScreen"]
       THEN /\ startSequence(timers, now)
            /\ gateStarts' = gateStarts + 1
            /\ lastDwell' = 0
            /\ UNCHANGED <<listeners, loaded>>
       ELSE /\ listeners' = Images
            /\ UNCHANGED <<loaded, gateStarts, ui, timers, timerSeq, now,
                           seqState, lastDwell, cycle>>
  /\ UNCHANGED <<fieldVars, complete, bursts, tlVars>>

\* the browser finishes loading img and dispatches its "load" event
Load(img) ==
  /\ registered
  /\ ~complete[img]
  /\ complete' = [complete EXCEPT ![img] = TRUE]
  /\ IF img \in listeners
       THEN /\ loaded' = loaded + 1
            /\ IF LoadGate(loaded + 1)
                 THEN /\ startSequence(timers, now)
                      /\ gateStarts' = gateStarts + 1
                      /\ lastDwell' = 0
                 ELSE UNCHANGED <<gateStarts, ui, timers, timerSeq, now,
                                  seqState, lastDwell, cycle>>
       ELSE UNCHANGED <<loaded, gateStarts, ui, timers, timerSeq, now,
                        seqState, lastDwell, cycle>>
  /\ UNCHANGED <<fieldVars, registered, readyAtReg, listeners, bursts, tlVars>>

\* the timeout the event loop runs next: none pending is due earlier
Due(t) == t \in timers /\ \A o \in timers : t.due <= o.due

\* first timeout callback: shake + explode
ExplodeCb(t) ==
  /\ Due(t) /\ t.cb = "explode"
  /\ bursts < MaxBursts
  /\ ui' = [ui EXCEPT !.logo = @ \cup {"shake"}, !.overlay = @ \cup {"exploding"}]
  /\ flakes' = burstIceShards(flakes, rng, width, height)
  /\ rng' = (rng + ShardDraws * BurstSize) % RandLen
  /\ bursts' = bursts + 1
  /\ SetTimeout(timers \ {t}, "icy", EXPLODE_DURATION, t.due)
  /\ now' = t.due
  /\ lastDwell' = t.due - now
  /\ seqState' = "Exploding"
  /\ UNCHANGED <<width, height, ticks, resizes, gateVars, cycle, tlVars>>

\* faulty second callback: the burst is fired here as well
IcyCbBursts(t) ==
  /\ Due(t) /\ t.cb = "icy"
  /\ ui' = [ui EXCEPT !.logo = @ \ {"breathe"}, !.overlay = @ \cup {"icy"},
                      !.day = @ \cup {"breathe"}]
  /\ flakes' = burstIceShards(flakes, rng, width, height)
  /\ rng' = (rng + ShardDraws * BurstSize) % RandLen
  /\ bursts' = bursts + 1
  /\ SetTimeout(timers \ {t}, "fade", SHOW_ICY, t.due)
  /\ now' = t.due
  /\ lastDwell' = t.due - now
  /\ seqState' = "ShowingB"
  /\ UNCHANGED <<width, height, ticks, resizes, gateVars, cycle, tlVars>>

\* second timeout callback: show the icy screen
IcyCb(t) ==
  /\ Due(t) /\ t.cb = "icy"
  /\ ui' = [ui EXCEPT !.logo = @ \ {"breathe"}, !.overlay = @ \cup {"icy"},
                      !.day = @ \cup {"breathe"}]
  /\ SetTimeout(timers \ {t}, "fade", SHOW_ICY, t.due)
  /\ now' = t.due
  /\ lastDwell' = t.due - now
  /\ seqState' = "ShowingB"
  /\ UNCHANGED <<fieldVars, gateVars, cycle, bursts, tlVars>>

\* third timeout callback: fade the icy screen out
FadeCb(t) ==
  /\ Due(t) /\ t.cb = "fade"
  /\ ui' = [ui EXCEPT !.day = @ \ {"breathe"}, !.dayOpacity = "0"]
  /\ SetTimeout(timers \ {t}, "restart", LOOP_PAUSE, t.due)
  /\ now' = t.due
  /\ lastDwell' = t.due - now
  /\ seqState' = "FadingOut"
  /\ UNCHANGED <<fieldVars, gateVars, cycle, bursts, tlVars>>

\* fourth timeout callback: restart the loop
RestartCb(t) ==
  /\ Due(t) /\ t.cb = "restart"
  /\ startSequence(timers \ {t}, t.due)
  /\ lastDwell' = t.due - now
  /\ UNCHANGED <<fieldVars, gateVars, bursts, tlVars>>

(* ------------------------- frames and resizes -------------------------- *)
\* requestAnimationFrame runs drawSnow
Frame ==
  /\ registered
  /\ ticks' = ticks + 1
  /\ UNCHANGED <<width, height, resizes, gateVars, seqVars, tlVars>>
  /\ rng' = RngAfterDraw(flakes, rng, height)
  /\ flakes' = drawSnow(flakes, rng, width, height)

\* a frame among the first MaxTicks
Tick == ticks < MaxTicks /\ Frame

\* the window "resize" listener
Resize(s) ==
  /\ registered
  /\ resizes < MaxResizes
  /\ s /= <<width, height>>
  /\ width' = s[1]
  /\ height' = s[2]
  /\ resizes' = resizes + 1
  /\ UNCHANGED <<flakes, rng, ticks, gateVars, seqVars, tlVars>>

(* ----------------------- main.js: scene and pose ------------------------ *)
\* Positions, scales, camState components and opacities are in thousandths;
\* rotations are in thousandths of a full turn (2 * Math.PI = 1000).
\* Timeline time is in ticks of 100 ms.
TwoPi == 1000

\* the scene graph below fullGroup
Children(obj) ==
  CASE obj = "fullGroup"  -> {"heartGroup", "addonGroup", "glowGroup"}
    [] obj = "heartGroup" -> {"bigHeartPlane"}
    [] obj = "textGroup"  -> {"textPlane"}
    [] obj = "addonGroup" -> {"textGroup", "smallHeartPlane"}
    [] obj = "glowGroup"  -> {"glowPlane"}
    [] OTHER              -> {}

\* the objects makeBillboard returns: meshes with a material of their own
Meshes == {"bigHeartPlane", "textPlane", "smallHeartPlane", "glowPlane"}

\* obj.traverse: the object itself and everything below it
RECURSIVE Traverse(_)
Traverse(obj) == {obj} \cup UNION {Traverse(c) : c \in Children(obj)}

\* the vectors the script or the timeline writes
Vectors ==
  {"heartGroup.scale", "textGroup.scale", "textGroup.rotation",
   "smallHeartPlane.position", "smallHeartPlane.rotation",
   "addonGroup.position", "addonGroup.scale", "addonGroup.rotation",
   "glowGroup.scale", "glowGroup.position",
   "fullGroup.rotation", "fullGroup.scale", "camState"}

Props == (Vectors \X {"x", "y", "z"}) \cup (Meshes \X {"opacity"})

\* vector.set(x, y, z)
Set3(ps, v, x, y, z) ==
  [p \in Props |->
     IF p[1] = v THEN (CASE p[2] = "x" -> x [] p[2] = "y" -> y [] OTHER -> z)
     ELSE ps[p]]

\* setOpacity(obj, value): every mesh found by the traversal gets the value
setOpacity(ps, obj, value) ==
  [p \in Props |->
     IF p[2] = "opacity" /\ p[1] \in Traverse(obj) THEN value ELSE ps[p]]

\* the values the constructors leave: scale 1, position and rotation 0,
\* material opacity 1, and camState as declared
Constructed ==
  [p \in Props |->
     IF p[2] = "opacity" THEN 1000
     ELSE IF p[1] \in {"heartGroup.scale", "textGroup.scale", "addonGroup.scale",
                       "glowGroup.scale", "fullGroup.scale"} THEN 1000
     ELSE IF p[1] = "camState"
       THEN (CASE p[2] = "x" -> 0 [] p[2] = "y" -> 300 [] OTHER -> 4000)
     ELSE 0]

\* the Z stacking lines
Stacked ==
  LET a == Set3(Constructed, "smallHeartPlane.position", 0, 0, 20)
  IN  Set3(a, "glowGroup.position", 0, 0, -50)

\* INITIAL STATE (Phase 0): the statements in the order the script runs them
InitialState ==
  LET s1  == Set3(Stacked, "heartGroup.scale", 800, 800, 800)
      s2  == setOpacity(s1, "heartGroup", 0)
      s3  == Set3(s2, "textGroup.scale", 500, 500, 500)
      s4  == setOpacity(s3, "textGroup", 0)
      s5  == Set3(s4, "smallHeartPlane.position", 2500, 2500, 20)
      s6  == setOpacity(s5, "smallHeartPlane", 0)
      s7  == Set3(s6, "addonGroup.position", 0, 0, 0)
      s8  == Set3(s7, "addonGroup.scale", 1000, 1000, 1000)
      s9  == setOpacity(s8, "addonGroup", 1000)
      s10 == Set3(s9, "glowGroup.scale", 600, 600, 600)
      s11 == setOpacity(s10, "glowGroup", 0)
      s12 == Set3(s11, "fullGroup.rotation", 0, 0, 0)
      s13 == Set3(s12, "fullGroup.scale", 1000, 1000, 1000)
  IN  Set3(s13, "camState", 0, 300, 4000)

(* ---------------------- main.js: timeline callbacks -------------------- *)
\* faulty spin completion: the rotation is left where the tween ended
SpinCompleteKeepsTurn(ps) == ps

\* onComplete of the hero spin: face front again
SpinComplete(ps) == [ps EXCEPT ![<<"fullGroup.rotation", "y">>] = 0]

\* onStart of the hold phase
HoldStart(ps) ==
  setOpacity(Set3(ps, "heartGroup.scale", 1000, 1000, 1000), "heartGroup", 1000)

\* faulty reset: the ejected group's rotation is not put back
ResetStartKeepsTilt(ps) ==
  LET s1  == Set3(ps, "heartGroup.scale", 800, 800, 800)
      s2  == setOpacity(s1, "heartGroup", 0)
      s3  == Set3(s2, "textGroup.scale", 500, 500, 500)
      s4  == Set3(s3, "textGroup.rotation", 0, 0, 0)
      s5  == setOpacity(s4, "textGroup", 0)
      s6  == Set3(s5, "smallHeartPlane.position", 2500, 2500, 20)
      s7  == Set3(s6, "smallHeartPlane.rotation", 0, 0, 0)
      s8  == setOpacity(s7, "smallHeartPlane", 0)
      s9  == Set3(s8, "addonGroup.position", 0, 0, 0)
      s10 == Set3(s9, "addonGroup.scale", 1000, 1000, 1000)
      s12 == setOpacity(s10, "addonGroup", 1000)
      s13 == Set3(s12, "glowGroup.scale", 600, 600, 600)
      s14 == Set3(s13, "glowGroup.position", 0, 0, -50)
      s15 == setOpacity(s14, "glowGroup", 0)
      s16 == Set3(s15, "fullGroup.rotation", 0, 0, 0)
      s17 == Set3(s16, "fullGroup.scale", 1000, 1000, 1000)
  IN  Set3(s17, "camState", 0, 300, 4000)

\* onStart of the reset phase: the statements in order
ResetStart(ps) ==
  LET s1  == Set3(ps, "heartGroup.scale", 800, 800, 800)
      s2  == setOpacity(s1, "heartGroup", 0)
      s3  == Set3(s2, "textGroup.scale", 500, 500, 500)
      s4  == Set3(s3, "textGroup.rotation", 0, 0, 0)
      s5  == setOpacity(s4, "textGroup", 0)
      s6  == Set3(s5, "smallHeartPlane.position", 2500, 2500, 20)
      s7  == Set3(s6, "smallHeartPlane.rotation", 0, 0, 0)
      s8  == setOpacity(s7, "smallHeartPlane", 0)
      s9  == Set3(s8, "addonGroup.position", 0, 0, 0)
      s10 == Set3(s9, "addonGroup.scale", 1000, 1000, 1000)
      s11 == Set3(s10, "addonGroup.rotation", 0, 0, 0)
      s12 == setOpacity(s11, "addonGroup", 1000)
      s13 == Set3(s12, "glowGroup.scale", 600, 600, 600)
      s14 == Set3(s13, "glowGroup.position", 0, 0, -50)
      s15 == setOpacity(s14, "glowGroup", 0)
      s16 == Set3(s15, "fullGroup.rotation", 0, 0, 0)
      s17 == Set3(s16, "fullGroup.scale", 1000, 1000, 1000)
  IN  Set3(s17, "camState", 0, 300, 4000)

\* the lifecycle callbacks of the timeline, by name ("" is none)
Callback(name, ps) ==
  CASE name = "heartVisible" -> setOpacity(ps, "heartGroup", 1000)
    [] name = "textVisible"  -> setOpacity(ps, "textGroup", 1000)
    [] name = "miniVisible"  -> setOpacity(ps, "smallHeartPlane", 1000)
    [] name = "glowOn"       -> setOpacity(ps, "glowGroup", 600)
    [] name = "spinComplete" -> SpinComplete(ps)
    [] name = "addonFade"    -> setOpacity(ps, "addonGroup", 0)
    [] name = "glowOff"      -> setOpacity(ps, "glowGroup", 0)
    [] name = "hold"         -> HoldStart(ps)
    [] name = "reset"        -> ResetStart(ps)
    [] OTHER                 -> ps

\* the properties a callback writes
CallbackWrites(name) ==
  CASE name = "heartVisible" -> Traverse("heartGroup") \X {"opacity"}
    [] name = "textVisible"  -> Traverse("textGroup") \X {"opacity"}
    [] name = "miniVisible"  -> Traverse("smallHeartPlane") \X {"opacity"}
    [] name = "glowOn"       -> Traverse("glowGroup") \X {"opacity"}
    [] name = "spinComplete" -> {<<"fullGroup.rotation", "y">>}
    [] name = "addonFade"    -> Traverse("addonGroup") \X {"opacity"}
    [] name = "glowOff"      -> Traverse("glowGroup") \X {"opacity"}
    [] name = "hold"         ->
         ({"heartGroup.scale"} \X {"x", "y", "z"})
           \cup (Traverse("heartGroup") \X {"opacity"})
    [] name = "reset"        -> Props
    [] OTHER                 -> {}

(* ------------------------ main.js: the timeline ------------------------ *)
\* phase start offsets, in ticks
RevealAt     == 0
LabelAt      == 6
FlyInAt      == 11
HeroSpinAt   == 18
PunchBackAt  == 28
BreakApartAt == 50
HoldAt       == 56
ResetAt      == 66

\* faulty position of the camera float: registered at the fly-in offset
CamFloatAtFlyIn == FlyInAt

\* position of the camera float tween
CamFloatAt == HeroSpinAt

NoTo == [c \in {} |-> 0]

\* one tl.to(target, vars, position) registration
Tw(at, dur, ease, target, to, onStart, onUpdate, onComplete) ==
  [at |-> at, dur |-> dur, ease |-> ease, target |-> target, to |-> to,
   onStart |-> onStart, onUpdate |-> onUpdate, onComplete |-> onComplete]

All3(v) == [x |-> v, y |-> v, z |-> v]

\* the registrations in source order; end values written relative to the
\* current rotation are evaluated at registration, when that rotation is 0
Tweens ==
  << Tw(RevealAt, 6, "back.out(1.6)", "heartGroup.scale", All3(1000), "", "", ""),
     Tw(RevealAt, 6, "power2.out", "", NoTo, "", "heartVisible", ""),
     Tw(RevealAt, 6, "power2.out", "camState", [x |-> 0, y |-> 250, z |-> 3600], "", "", ""),
     Tw(LabelAt, 5, "back.out(1.4)", "textGroup.scale", All3(1000), "", "", ""),
     Tw(LabelAt, 5, "power2.out", "", NoTo, "textVisible", "", ""),
     Tw(LabelAt, 5, "power1.out", "camState", [x |-> -200, y |-> 250, z |-> 3550], "", "", ""),
     Tw(FlyInAt, 7, "power2.out", "smallHeartPlane.position", [x |-> 0, y |-> 0, z |-> 20], "", "", ""),
     Tw(FlyInAt, 7, "back.out(1.4)", "addonGroup.scale", All3(1000), "", "", ""),
     Tw(FlyInAt, 7, "power2.out", "", NoTo, "miniVisible", "", ""),
     Tw(FlyInAt, 7, "power2.out", "camState", [x |-> 0, y |-> 400, z |-> 3400], "", "", ""),
     Tw(FlyInAt, 30, "none", "smallHeartPlane.rotation", [z |-> 0 + TwoPi * 4], "", "", ""),
     Tw(HeroSpinAt, 4, "power2.out", "glowGroup.scale", All3(1000), "", "", ""),
     Tw(HeroSpinAt, 4, "power2.out", "", NoTo, "glowOn", "", ""),
     Tw(HeroSpinAt, 25, "power2.inOut", "fullGroup.rotation", [y |-> 0 + TwoPi], "", "", "spinComplete"),
     Tw(HeroSpinAt, 10, "power2.out", "fullGroup.scale", All3(1150), "", "", ""),
     Tw(PunchBackAt, 15, "power2.inOut", "fullGroup.scale", All3(1000), "", "", ""),
     Tw(CamFloatAt, 25, "power1.inOut", "camState", [y |-> 500, z |-> 3800], "", "", ""),
     Tw(BreakApartAt, 6, "power2.in", "addonGroup.position", [x |-> 1500, y |-> 1500, z |-> 500], "", "", ""),
     Tw(BreakApartAt, 6, "power2.in", "addonGroup.scale", All3(400), "", "", ""),
     Tw(BreakApartAt, 6, "power2.in", "addonGroup.rotation", [z |-> 0 + TwoPi \div 8, y |-> 0 + TwoPi \div 2], "", "", ""),
     Tw(BreakApartAt, 6, "power2.out", "", NoTo, "", "addonFade", ""),
     Tw(BreakApartAt, 6, "power2.in", "glowGroup.scale", All3(1200), "", "", ""),
     Tw(BreakApartAt, 6, "power2.out", "", NoTo, "glowOff", "", ""),
     Tw(BreakApartAt, 6, "power2.inOut", "camState", [x |-> 200, y |-> 450, z |-> 4000], "", "", ""),
     Tw(HoldAt, 10, "power2.out", "camState", [x |-> 0, y |-> 300, z |-> 4000], "", "", ""),
     Tw(HoldAt, 10, "power2.out", "", NoTo, "hold", "", ""),
     Tw(ResetAt, 2, "power2.out", "", NoTo, "reset", "", "") >>

NTweens == Len(Tweens)

\* the timeline keeps its children sorted by start offset, children with the
\* same offset in the order they were added
Order ==
  SortSeq([i \in 1..NTweens |-> i],
          LAMBDA a, b : Tweens[a].at < Tweens[b].at
                          \/ (Tweens[a].at = Tweens[b].at /\ a < b))

\* the end of child k on the timeline
EndOf(k) == Tweens[k].at + Tweens[k].dur

\* the timeline's duration: the latest end of a child
Duration == CHOOSE d \in {EndOf(k) : k \in 1..NTweens} : \A k \in 1..NTweens : EndOf(k) <= d

\* the eased ratio of an ease at progress k / n, as <<numerator, denominator>>
EaseRatio(ease, k, n) ==
  LET q == n - k
      s == IF ease = "back.out(1.6)" THEN 16 ELSE 14
  IN CASE ease = "none"         -> <<k, n>>
       [] ease = "power1.out"   -> <<n * n - q * q, n * n>>
       [] ease = "power2.out"   -> <<n * n * n - q * q * q, n * n * n>>
       [] ease = "power2.in"    -> <<k * k * k, n * n * n>>
       [] ease = "power1.inOut" ->
            IF 2 * k < n THEN <<2 * k * k, n * n>>
                         ELSE <<n * n - 2 * q * q, n * n>>
       [] ease = "power2.inOut" ->
            IF 2 * k < n THEN <<4 * k * k * k, n * n * n>>
                         ELSE <<n * n * n - 4 * q * q * q, n * n * n>>
       [] OTHER                 ->
            \* back.out(s / 10): 1 + (p - 1)^2 * ((s/10 + 1) * (p - 1) + s/10)
            <<10 * n * n * n + q * q * (s * n - (s + 10) * q), 10 * n * n * n>>

\* the properties tween k animates
Animates(k) == {Tweens[k].target} \X DOMAIN Tweens[k].to

\* the function f written out as a table of its values
Table(f) == f @@ f

\* Tween.render of child k with the timeline's playhead at `time` (-1 when
\* the timeline rewinds its children at a repeat): start values are read at
\* the first render, onStart runs when the tween's playhead leaves 0,
\* then the properties are written, then onUpdate, then onComplete at the end
TweenRender(k, st, time, suppressEvents) ==
  LET T     == Tweens[k]
      total == time - T.at
      tTime == IF total >= T.dur THEN T.dur ELSE IF total <= 0 THEN 0 ELSE total
      prev  == st.tw[k].t
      from  == IF st.tw[k].init THEN st.tw[k].from
               ELSE Table([c \in DOMAIN T.to |-> st.pose[<<T.target, c>>]])
      r     == EaseRatio(T.ease, tTime, T.dur)
      p1    == Callback(IF tTime > 0 /\ prev = 0 /\ ~suppressEvents
                          THEN T.onStart ELSE "", st.pose)
      p2    == [p \in Props |->
                  IF p \in Animates(k)
                    THEN from[p[2]] + ((T.to[p[2]] - from[p[2]]) * r[1]) \div r[2]
                    ELSE p1[p]]
      p3    == Callback(IF ~suppressEvents THEN T.onUpdate ELSE "", p2)
      p4    == Callback(IF tTime = T.dur /\ ~suppressEvents
                          THEN T.onComplete ELSE "", p3)
  IN  IF tTime /= prev \/ total = 0
        THEN [pose |-> Table(p4),
              tw   |-> [st.tw EXCEPT ![k] = [init |-> TRUE, from |-> from, t |-> tTime]]]
        ELSE st

\* the one value v, computed and tabulated once (a bound variable ranging
\* over Only(v) holds the value, where a LET name would hold the expression)
Only(v) == {x \in {v} : x = x}

\* Timeline.render forwards: the children that have started, in order
RECURSIVE RenderForward(_, _, _)
RenderForward(i, st, time) ==
  IF i > NTweens THEN st
  ELSE CHOOSE res \in
         {RenderForward(i + 1, nxt, time) :
            nxt \in Only(IF time >= Tweens[Order[i]].at
                           THEN TweenRender(Order[i], st, time, FALSE) ELSE st)} : TRUE

\* the rewind at a repeat: every child is rendered before its start, last
\* child first, with events suppressed
RECURSIVE RenderRewind(_, _)
RenderRewind(i, st) ==
  IF i < 1 THEN st
  ELSE CHOOSE res \in
         {RenderRewind(i - 1, nxt) :
            nxt \in Only(TweenRender(Order[i], st, -1, TRUE))} : TRUE

\* faulty repeat: the children are not rewound when the timeline repeats
TimelineRenderNoRewind(st, from, d) ==
  IF from + d <= Duration
    THEN RenderForward(1, st, from + d)
    ELSE CHOOSE res \in
           {RenderForward(1, atEnd, from + d - Duration) :
              atEnd \in Only(RenderForward(1, st, Duration))} : TRUE

\* Timeline.render with repeat: -1: to the new playhead, or, when that lies
\* past the end of the iteration, to the end, then the rewind, then to the
\* playhead within the next iteration
TimelineRender(st, from, d) ==
  IF from + d <= Duration
    THEN RenderForward(1, st, from + d)
    ELSE CHOOSE res \in
           {RenderForward(1, rewound, from + d - Duration) :
              rewound \in {RenderRewind(NTweens, atEnd) :
                             atEnd \in Only(RenderForward(1, st, Duration))}} : TRUE

\* the frame deltas of the ticker, in ticks; a frame later than 500 ms is
\* played as a short one (GSAP's default lagSmoothing)
Deltas == {1, 2, 3, 5}

\* the timeline state when the script has run and no frame has been played
Fresh ==
  [pose |-> Table(InitialState),
   tw   |-> Table([k \in 1..NTweens |-> [init |-> FALSE, from |-> NoTo, t |-> 0]])]

\* playing from playhead `from` to playhead t of the same iteration, one tick
\* per frame
RECURSIVE PlayThrough(_, _, _)
PlayThrough(st, from, t) ==
  IF from >= t THEN st
  ELSE CHOOSE res \in
         {PlayThrough(nxt, from + 1, t) :
            nxt \in Only(TimelineRender(st, from, 1))} : TRUE

\* a ticker frame advances the timeline's playhead by d and renders it; the
\* reference play follows it to the same loop clock tick by tick, starting
\* over from the fresh state when the timeline repeats
Advance(d) ==
  /\ loops < MaxLoops \/ tlTime + d <= Duration
  /\ \E st \in Only(TimelineRender([pose |-> pose, tw |-> tw], tlTime, d)) :
       /\ pose' = st.pose
       /\ tw' = st.tw
  /\ tlTime' = IF tlTime + d <= Duration THEN tlTime + d ELSE tlTime + d - Duration
  /\ loops' = IF tlTime + d <= Duration THEN loops ELSE loops + 1
  /\ \E r \in Only(PlayThrough(
                     IF tlTime + d <= Duration
                       THEN [pose |-> refPose, tw |-> refTw] ELSE Fresh,
                     IF tlTime + d <= Duration THEN tlTime ELSE 0,
                     IF tlTime + d <= Duration
                       THEN tlTime + d ELSE tlTime + d - Duration)) :
       /\ refPose' = r.pose
       /\ refTw' = r.tw
  /\ UNCHANGED scriptVars

\* the timeline before its first frame
TimelineInit ==
  /\ tlTime = 0
  /\ loops = 0
  /\ pose = Fresh.pose
  /\ tw = Fresh.tw
  /\ refPose = Fresh.pose
  /\ refTw = Fresh.tw

(* --------------------------- specification ----------------------------- *)
\* the script has run up to the image gate: the pool is filled and the
\* first drawSnow() call has been made
InitWith(seeds) ==
  /\ \E s \in Sizes, seed \in seeds :
       /\ width = s[1] /\ height = s[2]
       /\ flakes = drawSnow(InitialSnow(seed, s[1], s[2]),
                            seed + FlakeDraws(FALSE) * maxFlakes, s[1], s[2])
       /\ rng = RngAfterDraw(InitialSnow(seed, s[1], s[2]),
                             seed + FlakeDraws(FALSE) * maxFlakes, s[2])
  /\ ticks = 0 /\ resizes = 0
  /\ complete \in [Images -> BOOLEAN]
  /\ registered = FALSE
  /\ readyAtReg = {}
  /\ listeners = {}
  /\ loaded = 0
  /\ gateStarts = 0
  /\ ui = [overlay |-> {}, logo |-> {}, day |-> {}, logoOpacity |-> "", dayOpacity |-> ""]
  /\ timers = {}
  /\ timerSeq = 0
  /\ now = 0
  /\ seqState = "Idle"
  /\ lastDwell = 0
  /\ cycle = 0
  /\ bursts = 0
  /\ TimelineInit

Init == InitWith(Seeds)

Next ==
  \/ Register
  \/ \E img \in Images : Load(img)
  \/ \E t \in timers : ExplodeCb(t)
  \/ \E t \in timers : IcyCb(t)
  \/ \E t \in timers : FadeCb(t)
  \/ \E t \in timers : RestartCb(t)
  \/ Tick
  \/ \E s \in Sizes : Resize(s)

Spec == Init /\ [][Next]_vars

\* the event loop runs a timeout that is due
TimerFire ==
  \E t \in timers : ExplodeCb(t) \/ IcyCb(t) \/ FadeCb(t) \/ RestartCb(t)

\* Spec with the event loop's guarantee that a due timeout is run
FairSpec == Spec /\ WF_vars(TimerFire)

\* The particle field with frames kept going: drawSnow asks for the next
\* frame at the end of every frame, so a frame is always run in the end.
\* Both images are complete when the gate runs; the burst of the first
\* timeout callback and the resizes fall within the first MaxTicks frames,
\* and MaxFall more frames follow them.  The later callbacks of the sequence
\* do not touch the pool and are left out here.
LiveInit == Init /\ \A i \in Images : complete[i]

NextLive ==
  \/ Register
  \/ ticks < MaxTicks /\ \E t \in timers : ExplodeCb(t)
  \/ ticks < MaxTicks /\ \E s \in Sizes : Resize(s)
  \/ ticks < MaxTicks + MaxFall /\ Frame

\* a frame step, told by the frame count: within NextLive only Frame counts
\* a frame
FrameRuns == registered /\ ticks < MaxTicks + MaxFall /\ ticks' = ticks + 1

LiveSpec == LiveInit /\ [][NextLive]_vars /\ WF_ticks(FrameRuns)

\* main.js on its page: the timeline played by the ticker, frame after frame;
\* script.js is left as it was loaded
TlInit == InitWith({0}) /\ width = 4 /\ \A i \in Images : complete[i]

TlNext == \E d \in Deltas : Advance(d)

TlSpec == TlInit /\ [][TlNext]_vars

(* ------------------------------ claims --------------------------------- *)
AllComplete == \A i \in Images : complete[i]

\* C1: the image gate calls startSequence exactly once: never twice; once,
\* at registration, when both images are complete then; and, when neither
\* is complete then, once, at the load event that makes both complete (so
\* not before the second load event and not later than it).
C1_SingleStart ==
  /\ gateStarts <= 1
  /\ (registered /\ readyAtReg = Images) => gateStarts = 1
  /\ (registered /\ readyAtReg = {}) =>
        /\ gateStarts = 1 <=> loaded = 2
        /\ loaded = 2 <=> AllComplete

C1_Witness ==
  registered /\ readyAtReg = {} /\ loaded = 2 /\ gateStarts = 1 /\ bursts = 1

\* C2: whenever the sequence has been started (the sequencer has left Idle,
\* a timeout exists or a flag has been written), both images are complete.
C2_EntryGating ==
  (seqState /= "Idle" \/ cycle > 0 \/ timerSeq > 0 \/ ui.logoOpacity /= "")
    => AllComplete

C2_Witness ==
  seqState = "ShowingA" /\ cycle = 1 /\ readyAtReg = {} /\ AllComplete

\* the sequencer state at time t, read off a state of the model: the last
\* callback ran at or before t and no pending timeout is due by t
StateAt(t, s) ==
  (gateStarts = 1 /\ now <= t /\ \A tm \in timers : t < tm.due) => seqState = s

\* C3: with the delays 4500 / 900 / 5000 / 1000 ms and the sequence started
\* at t = 0, the state is ShowingA at 4000, Exploding at 4600, ShowingB at
\* 5800, FadingOut at 10700 and ShowingA again at 11800.
C3_TimingScenario ==
  /\ StateAt(4000, "ShowingA")
  /\ StateAt(4600, "Exploding")
  /\ StateAt(5800, "ShowingB")
  /\ StateAt(10700, "FadingOut")
  /\ StateAt(11800, "ShowingA")

C3_Witness ==
  gateStarts = 1 /\ cycle = 2 /\ seqState = "ShowingA" /\ now = 11400
    /\ \A tm \in timers : 11800 < tm.due

\* the cyclic order of the sequencer states and the delay each one dwells
NextState(s) ==
  CASE s = "ShowingA"  -> "Exploding"
    [] s = "Exploding" -> "ShowingB"
    [] s = "ShowingB"  -> "FadingOut"
    [] s = "FadingOut" -> "ShowingA"
    [] OTHER           -> "ShowingA"

Dwell(s) ==
  CASE s = "ShowingA"  -> 4500
    [] s = "Exploding" -> 900
    [] s = "ShowingB"  -> 5000
    [] s = "FadingOut" -> 1000
    [] OTHER           -> 0

\* a step in which the one due timeout expires after the dwell of state s
ExpiresAfterDwell(s) ==
  \E t \in timers :
    /\ Due(t)
    /\ t \notin timers'
    /\ now' = t.due
    /\ now' - now = Dwell(s)

\* C4: once started, the sequencer changes state only ShowingA -> Exploding
\* -> ShowingB -> FadingOut -> ShowingA, each change is the expiry of a
\* timeout after the dwell of the state left (4500, 900, 5000, 1000 ms), no
\* other step changes the state or starts a cycle, and every state is left
\* (ShowingA: as long as the model's bound on bursts lets the cycle go on).
C4_CycleOrder ==
  /\ [][(seqState /= "Idle" /\ (seqState' /= seqState \/ cycle' /= cycle))
         => /\ seqState' = NextState(seqState)
            /\ seqState' /= seqState
            /\ ExpiresAfterDwell(seqState)
            /\ cycle' = IF seqState = "FadingOut" THEN cycle + 1 ELSE cycle]_vars
  /\ [][(seqState /= "Idle" /\ timers' /= timers) => seqState' /= seqState]_vars
  /\ (seqState = "ShowingA" /\ bursts < MaxBursts) ~> (seqState = "Exploding")
  /\ (seqState = "Exploding") ~> (seqState = "ShowingB")
  /\ (seqState = "ShowingB") ~> (seqState = "FadingOut")
  /\ (seqState = "FadingOut") ~> (seqState = "ShowingA")

C4_Witness ==
  seqState = "ShowingA" /\ cycle = 2 /\ lastDwell = 1000 /\ ticks > 0

\* a surface is shown when its inline opacity has been set to a non-zero value
Shown(opacity) == opacity \notin {"", "0"}

C6_ShowingBEntry ==
  /\ seqState = "ShowingB" =>
        /\ "breathe" \notin ui.logo
        /\ "icy" \in ui.overlay
        /\ Shown(ui.dayOpacity)
        /\ "breathe" \in ui.day
  /\ seqState = "FadingOut" =>
        /\ "breathe" \notin ui.day
        /\ ui.dayOpacity = "0"

\* entries into Exploding so far, read off the cycle count and the state
Explosions ==
  IF seqState \in {"Idle", "ShowingA"} THEN cycle - (IF cycle > 0 THEN 1 ELSE 0)
  ELSE cycle

\* C7: a burst happens exactly in the steps ShowingA -> Exploding, one burst
\* per such step, so after k entries into Exploding there have been k bursts
\* and the pool has grown k times.
C7_BurstTrigger ==
  /\ [](bursts = Explosions)
  /\ [][(bursts' /= bursts \/ Len(flakes') /= Len(flakes))
           <=> (seqState = "ShowingA" /\ seqState' = "Exploding")]_vars
  /\ [][bursts' \in {bursts, bursts + 1}]_vars

C7_Witness ==
  bursts = 1 /\ seqState = "ShowingA" /\ cycle = 2 /\ Len(flakes) > maxFlakes

\* the centre window of a burst: within 0.075 of the size around the middle
InWindow(f, w, h) ==
  /\ w * 500 - 75 * w <= f.x /\ f.x <= w * 500 + 75 * w
  /\ h * 500 - 75 * h <= f.y /\ f.y <= h * 500 + 75 * h

\* C8: a burst makes the pool exactly 60 longer, leaves the flakes that were
\* in it unchanged, and each of the 60 new flakes starts inside the window.
C8_BurstAdditivity ==
  [][bursts' /= bursts =>
       /\ Len(flakes') = Len(flakes) + 60
       /\ SubSeq(flakes', 1, Len(flakes)) = flakes
       /\ \A i \in (Len(flakes) + 1)..Len(flakes') :
             InWindow(flakes'[i], width, height)]_vars

C8_Witness ==
  /\ bursts = 1 /\ seqState = "Exploding" /\ Len(flakes) = 200
  /\ \E i \in 141..200 : flakes[i].x = width * 500 - 75 * width
  /\ \E i \in 141..200 : flakes[i].y = height * 500 + 72 * height

InBounds(f, w, h) ==
  /\ -5000 <= f.x /\ f.x <= (w + 5) * 1000
  /\ -5000 <= f.y /\ f.y <= h * 1000

\* C9: right after every frame, also the one the script runs itself before
\* any event, every flake of the pool has x in [-5, width + 5] and y in
\* [-5, height] for the width and height of that frame.
C9_ParticleBounds ==
  /\ [](ticks = 0 /\ resizes = 0 /\ bursts = 0
          => \A i \in 1..Len(flakes) : InBounds(flakes[i], width, height))
  /\ [][ticks' /= ticks
          => \A i \in 1..Len(flakes') : InBounds(flakes'[i], width, height)]_vars

\* a frame, after a resize and a burst, that wrapped a flake from the left
\* edge to the right one (it had been wrapped to the left edge by the frame
\* before) and recycled another at the top
C9_Witness ==
  /\ ticks >= 2 /\ resizes = 1 /\ bursts = 1
  /\ \E i \in 1..Len(flakes) : flakes[i].x = (width + 5) * 1000
  /\ \E i \in 1..Len(flakes) : flakes[i].y = -5000

\* the slots bursts fill, within the bound on bursts
ShardSlots == (maxFlakes + 1)..(maxFlakes + BurstSize * MaxBursts)

IsShard(i) == i <= Len(flakes) /\ flakes[i].extraBurst

\* C10: with frames going on, every flake a burst added is in the end
\* replaced, in its slot, by a flake made by createFlake(false) and put at
\* y = -5, and that happens in a frame in which the flake passed the bottom;
\* the slots of the initial fill never hold a burst flake.
C10_ShardsRejoin ==
  /\ \A i \in ShardSlots : IsShard(i) ~> ~IsShard(i)
  /\ [](\A i \in 1..maxFlakes : ~IsShard(i))
  /\ [][\A i \in 1..Len(flakes) :
          (flakes[i].extraBurst /\ ~flakes'[i].extraBurst)
            => /\ ticks' = ticks + 1
               /\ flakes[i].y + flakes[i].speedY > height * 1000
               /\ flakes'[i].y = -5000
               /\ \E n \in 0..(RandLen - 1) :
                     flakes'[i] = [CreateFlake(FALSE, n, width, height) EXCEPT !.y = -5000]]_vars

C10_Witness ==
  /\ bursts = 1 /\ Len(flakes) = maxFlakes + BurstSize
  /\ \A i \in 1..Len(flakes) : ~flakes[i].extraBurst
  /\ resizes = 1 /\ height = 8 /\ ticks > MaxTicks

\* C15: a frame never changes the pool size, and a flake whose move takes it
\* past the left or right bound but not past the bottom keeps its slot, its
\* speedX, speedY, radius and alpha, has y advanced by speedY, and has x set
\* to the opposite bound (-5 after leaving on the right, width + 5 after
\* leaving on the left).
C15_TickFrame ==
  [][ticks' /= ticks =>
       /\ Len(flakes') = Len(flakes)
       /\ \A i \in 1..Len(flakes) :
            LET f  == flakes[i]
                nx == f.x + f.speedX
                ny == f.y + f.speedY
            IN  (ny <= height * 1000 /\ (nx > (width + 5) * 1000 \/ nx < -5000))
                  => flakes'[i] =
                       [f EXCEPT !.y = ny,
                                 !.x = IF nx > (width + 5) * 1000
                                         THEN -5000 ELSE (width + 5) * 1000]]_vars

\* after a shrinking resize a frame has wrapped a moving flake from the right
\* to the left bound
C15_Witness ==
  /\ ticks >= 1 /\ resizes = 1 /\ width = 4
  /\ \E i \in 1..Len(flakes) :
       flakes[i].x = -5000 /\ flakes[i].y > 0 /\ flakes[i].speedX /= 0

\* C16: when exactly one image is complete at registration and the other
\* completes afterwards, the gate has started the sequence exactly once by
\* the time both are complete.
C16_MixedReadiness ==
  (registered /\ Cardinality(readyAtReg) = 1 /\ AllComplete) => gateStarts = 1

\* C17: at most one timeout is pending in every state; a step creates at most
\* one timeout, and a step that creates one after the first start is a
\* callback that consumes the pending one; a cycle starts only when nothing
\* of the previous cycle is pending.
C17_SingleChain ==
  /\ [](Cardinality(timers) <= 1)
  /\ [][timerSeq' \in {timerSeq, timerSeq + 1}]_vars
  /\ [][(timerSeq' /= timerSeq /\ timerSeq > 0)
          => /\ timers \cap timers' = {}
             /\ Cardinality(timers) = 1
             /\ Cardinality(timers') = 1]_vars
  /\ [][ui' /= ui => timerSeq' = timerSeq + 1]_vars
  /\ [][cycle' /= cycle => Cardinality(timers') = 1 /\ timers \cap timers' = {}]_vars

C17_Witness ==
  cycle = 2 /\ Cardinality(timers) = 1 /\ timerSeq = 5 /\ readyAtReg = {}

\* the flags and opacities startSequence leaves
CleanStart ==
  [overlay |-> {}, logo |-> {"breathe"}, day |-> {},
   logoOpacity |-> "1", dayOpacity |-> "0"]

\* C18: throughout ShowingA, in the first cycle and after every restart, the
\* overlay has no flag, the logo has breathe and no shake, the day screen has
\* no breathe, the logo's opacity is 1 and the day screen's is 0.
C18_CleanRestart ==
  /\ [](seqState = "ShowingA" => ui = CleanStart)
  /\ [][cycle' /= cycle => ui' = CleanStart /\ seqState' = "ShowingA"]_vars

C18_Witness ==
  seqState = "ShowingA" /\ cycle = 2 /\ bursts = 1 /\ ui = CleanStart

\* C19: the pool holds 140 flakes before the first burst and 140 + 60 * k
\* after k entries into Exploding, whatever frames, bursts and resizes have
\* run; no step makes it shorter.
C19_PoolGrowth ==
  /\ [](Len(flakes) = 140 + 60 * Explosions)
  /\ [](bursts = 0 => Len(flakes) = 140)
  /\ [][Len(flakes') >= Len(flakes)]_vars

C19_Witness ==
  /\ Explosions = 1 /\ Len(flakes) = 200 /\ ticks = MaxTicks /\ resizes = 1
  /\ \E i \in 1..140 : flakes[i].y = -5000

\* C11: whatever pose a loop has reached, the reset callback turns it into
\* the Phase-0 initial state, value for value; so once the playhead has passed
\* the reset offset, and at the end of every iteration, the pose is the
\* initial state.
C11_LoopContinuity ==
  /\ ResetStart(pose) = InitialState
  /\ tlTime > ResetAt => pose = InitialState
  /\ tlTime = Duration => pose = InitialState

C11_Witness ==
  /\ loops = MaxLoops /\ tlTime = Duration /\ pose = InitialState
  /\ \A k \in 1..NTweens : tw[k].init /\ tw[k].t = Tweens[k].dur

fullGroupRotationY == pose[<<"fullGroup.rotation", "y">>]

\* the hero spin tween is the 14th registration
HeroSpin == 14

\* C12: the full group's y rotation is within [0, one turn] in every state of
\* every iteration; it is exactly 0 from the end of the hero spin (4.3 s) to
\* the end of the iteration, and from the start of an iteration to the start
\* of the spin.
C12_RotationBounded ==
  /\ 0 <= fullGroupRotationY /\ fullGroupRotationY <= TwoPi
  /\ tlTime >= EndOf(HeroSpin) => fullGroupRotationY = 0
  /\ tlTime <= Tweens[HeroSpin].at => fullGroupRotationY = 0

C12_Witness ==
  /\ loops = MaxLoops /\ tlTime = EndOf(HeroSpin)
  /\ tw[HeroSpin].t = Tweens[HeroSpin].dur /\ fullGroupRotationY = 0

C14_StagedReveal ==
  /\ tlTime <= LabelAt => pose[<<"textPlane", "opacity">>] = 0
  /\ tlTime <= FlyInAt => pose[<<"smallHeartPlane", "opacity">>] = 0
  /\ tlTime > ResetAt =>
       /\ pose[<<"textPlane", "opacity">>] = 0
       /\ pose[<<"smallHeartPlane", "opacity">>] = 0

\* the properties phase k writes, by its tween or by one of its callbacks
Writes(k) ==
  Animates(k) \cup CallbackWrites(Tweens[k].onStart)
              \cup CallbackWrites(Tweens[k].onUpdate)
              \cup CallbackWrites(Tweens[k].onComplete)

\* phase k is active: the playhead is inside its open interval
Active(k) == Tweens[k].at < tlTime /\ tlTime < EndOf(k)

\* C20: two different phases that write a common property have disjoint open
\* intervals on the timeline; so in no state are two phases that write a
\* common property active together.
C20_PhaseIndependence ==
  /\ \A a, b \in 1..NTweens :
       (a /= b /\ Writes(a) \cap Writes(b) /= {})
         => (EndOf(a) <= Tweens[b].at \/ EndOf(b) <= Tweens[a].at)
  /\ \A a, b \in 1..NTweens :
       (a /= b /\ Active(a) /\ Active(b)) => Writes(a) \cap Writes(b) = {}

\* mid-spin: the mini heart spin, the hero spin, the scale punch and the
\* camera float are active together
C20_Witness ==
  /\ loops = MaxLoops /\ tlTime = HeroSpinAt + 5
  /\ Cardinality({k \in 1..NTweens : Active(k)}) = 4

====
